---- MODULE Spec2Model ----
(***************************************************************************)
(* Model of the ANUS agent orchestration core:                             *)
(*   anus/core/agent/hybrid_agent.py   HybridAgent                         *)
(*   anus/core/orchestrator.py         AgentOrchestrator                   *)
(*                                                                         *)
(* Text is a sequence of one-character strings.  Scores are kept in tenths *)
(* (3.0 is 30, 10.0 is 100), so every weight of the source is an integer.  *)
(***************************************************************************)
EXTENDS Integers, Sequences, FiniteSets, TLC

\* ------------------------------------------------------------------------
\* Bounds of the model
\* ------------------------------------------------------------------------

\* number of execute_task calls made on the orchestrator
MaxCalls == 2

\* number of ToolAgent objects built for one role
MaxBuilt == 1

\* ------------------------------------------------------------------------
\* Characters and strings
\* ------------------------------------------------------------------------

UpperCase ==
  <<"A", "B", "C", "D", "E", "F", "G", "H", "I", "J", "K", "L", "M",
    "N", "O", "P", "Q", "R", "S", "T", "U", "V", "W", "X", "Y", "Z">>

LowerCase ==
  <<"a", "b", "c", "d", "e", "f", "g", "h", "i", "j", "k", "l", "m",
    "n", "o", "p", "q", "r", "s", "t", "u", "v", "w", "x", "y", "z">>

Digits == {"0", "1", "2", "3", "4", "5", "6", "7", "8", "9"}

Range(s) == {s[i] : i \in DOMAIN s}

\* str.isspace for one character
isspace(c) == c \in {" ", "\t", "\n"}

\* str.isalnum for one character
isalnum(c) == c \in Range(UpperCase) \cup Range(LowerCase) \cup Digits

\* str.lower for one character
lower_char(c) ==
  IF c \in Range(UpperCase)
    THEN LowerCase[CHOOSE i \in DOMAIN UpperCase : UpperCase[i] = c]
    ELSE c

\* str.lower
lower(text) == [i \in DOMAIN text |-> lower_char(text[i])]

\* str.startswith
startswith(text, prefix) ==
  /\ Len(prefix) <= Len(text)
  /\ SubSeq(text, 1, Len(prefix)) = prefix

\* the substring test `kw in text`
contains(text, kw) ==
  \E i \in 1..(Len(text) + 1) :
    /\ i + Len(kw) - 1 <= Len(text)
    /\ SubSeq(text, i, i + Len(kw) - 1) = kw

\* len(text.split()): the number of maximal runs of non-space characters
split_len(text) ==
  Cardinality({i \in DOMAIN text :
                 /\ ~isspace(text[i])
                 /\ (i = 1 \/ isspace(text[i - 1]))})

\* ------------------------------------------------------------------------
\* re.findall for the patterns of _assess_complexity
\* ------------------------------------------------------------------------

\* the regular-expression element \s+ ; every other element is a literal
WS == "\\s+"

\* first position after the run of whitespace that starts at pos
RECURSIVE skip_spaces(_, _)
skip_spaces(text, pos) ==
  IF pos <= Len(text) /\ isspace(text[pos])
    THEN skip_spaces(text, pos + 1)
    ELSE pos

\* position after a match of alt[k..] at pos, or 0 when there is no match
RECURSIVE match_end(_, _, _, _)
match_end(alt, k, text, pos) ==
  IF k > Len(alt) THEN pos
  ELSE IF pos > Len(text) THEN 0
  ELSE IF alt[k] = WS
    THEN IF isspace(text[pos])
           THEN match_end(alt, k + 1, text, skip_spaces(text, pos))
           ELSE 0
    ELSE IF text[pos] = alt[k]
           THEN match_end(alt, k + 1, text, pos + 1)
           ELSE 0

\* position after the match of the first alternative (in order) that
\* matches at pos, or 0
RECURSIVE first_match_end(_, _, _, _)
first_match_end(alts, a, text, pos) ==
  IF a > Len(alts) THEN 0
  ELSE LET e == match_end(alts[a], 1, text, pos)
       IN  IF e # 0 THEN e ELSE first_match_end(alts, a + 1, text, pos)

\* findall_len as it would be if the pattern had to match the whole text
\* (re.fullmatch): one match or none
findall_len_fullmatch(alts, text, pos) ==
  IF pos <= Len(text) /\ first_match_end(alts, 1, text, pos) = Len(text) + 1
    THEN 1
    ELSE 0

\* len(re.findall(pattern, text)): leftmost non-overlapping matches
RECURSIVE findall_len(_, _, _)
findall_len(alts, text, pos) ==
  IF pos > Len(text) THEN 0
  ELSE LET e == first_match_end(alts, 1, text, pos)
       IN  IF e # 0
             THEN 1 + findall_len(alts, text, e)
             ELSE findall_len(alts, text, pos + 1)

\* ------------------------------------------------------------------------
\* HybridAgent._assess_complexity
\* ------------------------------------------------------------------------

\* the (pattern, score) table; scores in tenths
operations ==
  << [alts |-> << <<"c", "a", "l", "c", "u", "l", "a", "t", "e">>,
                 <<"c", "o", "m", "p", "u", "t", "e">>,
                 <<"e", "v", "a", "l", "u", "a", "t", "e">> >>,
      score |-> 10],
     [alts |-> << <<"s", "e", "a", "r", "c", "h">>,
                 <<"f", "i", "n", "d">>,
                 <<"l", "o", "o", "k", " ", "u", "p">> >>,
      score |-> 10],
     [alts |-> << <<"c", "o", "u", "n", "t", WS, "t", "e", "x", "t">>,
                 <<"p", "r", "o", "c", "e", "s", "s", WS, "t", "e", "x", "t">>,
                 <<"a", "n", "a", "l", "y", "z", "e", WS, "t", "e", "x", "t">>,
                 <<"t", "r", "a", "n", "s", "f", "o", "r", "m", WS, "t", "e", "x", "t">> >>,
      score |-> 10],
     [alts |-> << <<"r", "u", "n", WS, "c", "o", "d", "e">>,
                 <<"e", "x", "e", "c", "u", "t", "e">> >>,
      score |-> 15],
     [alts |-> << <<"c", "o", "m", "p", "a", "r", "e">>,
                 <<"c", "o", "n", "t", "r", "a", "s", "t">>,
                 <<"e", "v", "a", "l", "u", "a", "t", "e">> >>,
      score |-> 20],
     [alts |-> << <<"o", "p", "t", "i", "m", "i", "z", "e">>,
                 <<"i", "m", "p", "r", "o", "v", "e">>,
                 <<"e", "n", "h", "a", "n", "c", "e">> >>,
      score |-> 25],
     [alts |-> << <<"a", "n", "d">>,
                 <<"t", "h", "e", "n">>,
                 <<"a", "f", "t", "e", "r">>,
                 <<"b", "e", "f", "o", "r", "e">> >>,
      score |-> 10],
     [alts |-> << <<"i", "f">>,
                 <<"w", "h", "e", "n">>,
                 <<"u", "n", "l", "e", "s", "s">>,
                 <<"o", "t", "h", "e", "r", "w", "i", "s", "e">> >>,
      score |-> 15],
     [alts |-> << <<"a", "l", "l">>,
                 <<"e", "v", "e", "r", "y">>,
                 <<"e", "a", "c", "h">> >>,
      score |-> 10],
     [alts |-> << <<"m", "o", "s", "t">>,
                 <<"b", "e", "s", "t">>,
                 <<"o", "p", "t", "i", "m", "a", "l">> >>,
      score |-> 15] >>

\* the keyword lists of the four tool categories (calculator, search,
\* text, code)
tool_keywords ==
  << { <<"c", "a", "l", "c", "u", "l", "a", "t", "e">>,
       <<"c", "o", "m", "p", "u", "t", "e">>,
       <<"e", "v", "a", "l", "u", "a", "t", "e">>,
       <<"m", "a", "t", "h">> },
     { <<"s", "e", "a", "r", "c", "h">>,
       <<"f", "i", "n", "d">>,
       <<"l", "o", "o", "k", " ", "u", "p">>,
       <<"q", "u", "e", "r", "y">> },
     { <<"t", "e", "x", "t">>,
       <<"s", "t", "r", "i", "n", "g">>,
       <<"c", "h", "a", "r", "a", "c", "t", "e", "r", "s">>,
       <<"w", "o", "r", "d", "s">> },
     { <<"c", "o", "d", "e">>,
       <<"e", "x", "e", "c", "u", "t", "e">>,
       <<"r", "u", "n">>,
       <<"p", "y", "t", "h", "o", "n">> } >>

\* score of one word, of one special character, of one needed tool (tenths)
WordScore == 1
SpecialScore == 2
ToolScore == 15

\* the clamp 10.0 and the dispatch threshold 3.0 (tenths)
MaxComplexity == 100
Threshold == 30

\* the loop over operations: sum of score * len(matches) for patterns n..
RECURSIVE operations_score(_, _)
operations_score(task, n) ==
  IF n > Len(operations) THEN 0
  ELSE operations[n].score * findall_len(operations[n].alts, lower(task), 1)
         + operations_score(task, n + 1)

\* characters that are neither alphanumeric nor whitespace
special_chars(task) ==
  Cardinality({i \in DOMAIN task : ~isalnum(task[i]) /\ ~isspace(task[i])})

\* number of tool categories one of whose keywords occurs in task.lower()
tools_needed(task) ==
  Cardinality({t \in DOMAIN tool_keywords :
                 \E kw \in tool_keywords[t] : contains(lower(task), kw)})

\* the sum before the clamp
raw_complexity(task) ==
  operations_score(task, 1)
    + split_len(task) * WordScore
    + special_chars(task) * SpecialScore
    + tools_needed(task) * ToolScore

\* assess_complexity as it would be without the clamp
assess_complexity_unclamped(task) == raw_complexity(task)

assess_complexity(task) ==
  IF raw_complexity(task) < MaxComplexity
    THEN raw_complexity(task)
    ELSE MaxComplexity

\* ------------------------------------------------------------------------
\* Python values
\* ------------------------------------------------------------------------

\* None
NoneVal == [type |-> "NoneType"]

\* the empty dict {}
EmptyDict == <<>>

\* dict.get(k, default)
dict_get(d, k, default) == IF k \in DOMAIN d THEN d[k] ELSE default

\* truth value of an object in `if x` / `not x`: None and {} are false
truthy(v) == v # NoneVal /\ v # EmptyDict

\* str(v) inside an f-string: the rendering of v, not v itself
str(v) == <<"str", v>>

\* d[k] = v on a dict
dict_set(d, k, v) == [x \in DOMAIN d \cup {k} |-> IF x = k THEN v ELSE d[x]]

\* ------------------------------------------------------------------------
\* ToolAgent (anus/core/agent/tool_agent.py): the capability-backed agent
\* ------------------------------------------------------------------------

\* results of ToolAgent.execute: Result{status, result, answer?}
ExecuteResults ==
  { [status |-> "success", result |-> "output", answer |-> <<"answer">>],
    [status |-> "error", result |-> "failure"] }

\* (action_name, action_input) pairs returned by ToolAgent._decide_action
DecideOutcomes ==
  { [name |-> "calculator", input |-> [expression |-> "2 + 2"]],
    [name |-> "calculator", input |-> EmptyDict],
    [name |-> "search", input |-> [query |-> "2 + 2"]] }

\* results of ToolAgent._execute_action
ActionResults ==
  { [status |-> "success", result |-> "4"],
    [status |-> "success"],
    [status |-> "error", error |-> "failed"] }

\* the object ToolAgent(name=name, **config) builds; id is its identity
ToolAgent(id, name, config) ==
  [type |-> "ToolAgent", id |-> id, name |-> name, config |-> config]

\* ------------------------------------------------------------------------
\* Inputs
\* ------------------------------------------------------------------------

standard_roles == <<"researcher", "planner", "executor", "critic">>

Roles == Range(standard_roles)

Calls == 1..MaxCalls

\* "calculate 2+2": complexity 2.9
TaskCalcShort == <<"c", "a", "l", "c", "u", "l", "a", "t", "e", " ", "2", "+", "2">>

\* "Calculate 2 + 2": complexity 3.1
TaskCalc == <<"C", "a", "l", "c", "u", "l", "a", "t", "e", " ", "2", " ", "+", " ", "2">>

\* "compare all": complexity 3.2
TaskCompare == <<"c", "o", "m", "p", "a", "r", "e", " ", "a", "l", "l">>

\* the (task, mode) arguments of the calls of execute_task; the mode <<>>
\* is None and <<m>> is the string m
CallInputs ==
  { [task |-> TaskCalcShort, mode |-> <<>>],
    [task |-> TaskCalc, mode |-> <<>>],
    [task |-> TaskCompare, mode |-> <<>>],
    [task |-> TaskCompare, mode |-> <<"multi">>] }

\* what _load_config returns: {} when there is no configuration file
LoadedConfigs == {EmptyDict}

\* configurations passed to add_specialized_agent from outside
AgentConfigs ==
  { [tools |-> <<>>],
    [name |-> <<"scout">>, tools |-> <<>>] }

\* "calculate"
Calculate == <<"c", "a", "l", "c", "u", "l", "a", "t", "e">>

\* ------------------------------------------------------------------------
\* State
\* ------------------------------------------------------------------------

VARIABLES
  config,              \* AgentOrchestrator.config
  specialized_agents,  \* HybridAgent.specialized_agents of the primary agent
  built,               \* per role, how many ToolAgent objects were built
  registered,          \* per role, how many of them a caller registered
  task_history,        \* AgentOrchestrator.task_history
  last_result,         \* AgentOrchestrator.last_result
  clock,               \* time.time(): the number of clock reads so far
  pc,                  \* position of each execute_task call
  args,                \* task and mode of each call
  start_time,          \* local start_time of each call
  frame,               \* locals of _execute_multi_agent in each worker
  ret,                 \* what primary_agent.execute returned or raised
  trace,               \* per call, the capability invocations it made
  scored_task,         \* the task _assess_complexity was last called with
  complexity,          \* the score that call returned (tenths)
  insertions,          \* how many phrases were inserted into scored_task
  executor_ran,        \* whether the executor stage of the aggregation ran
  final_result,        \* the local final_result at the return statement
  answer               \* the "answer" of the record returned

\* the variables of the calls of _assess_complexity and of the aggregation
\* taken on their own
function_vars ==
  <<scored_task, complexity, insertions, executor_ran, final_result, answer>>

vars ==
  <<config, specialized_agents, built, registered, task_history, last_result,
    clock, pc, args, start_time, frame, ret, trace, function_vars>>

\* locals of _execute_multi_agent on entry: action is the pair
\* (action_name, action_input), role the index of the role the code is at,
\* running the agent whose execute is in progress
NoFrame ==
  [action |-> NoneVal, result |-> NoneVal, role |-> 1, results |-> EmptyDict,
   final_result |-> NoneVal, running |-> NoneVal]

Init ==
  /\ config \in LoadedConfigs
  /\ specialized_agents = [r \in Roles |-> NoneVal]
  /\ built = [r \in Roles |-> 0]
  /\ registered = [r \in Roles |-> 0]
  /\ task_history = <<>>
  /\ last_result = EmptyDict
  /\ clock = 0
  /\ pc = [c \in Calls |-> "idle"]
  /\ args = [c \in Calls |-> [task |-> <<>>, mode |-> ""]]
  /\ start_time = [c \in Calls |-> 0]
  /\ frame = [c \in Calls |-> NoFrame]
  /\ ret = [c \in Calls |-> NoneVal]
  /\ trace = [c \in Calls |-> <<>>]
  /\ scored_task = <<>>
  /\ complexity = 0
  /\ insertions = 0
  /\ executor_ran = FALSE
  /\ final_result = NoneVal
  /\ answer = <<>>

\* ------------------------------------------------------------------------
\* HybridAgent.add_specialized_agent
\* ------------------------------------------------------------------------

\* ToolAgent(name=agent_name, **config) passes name twice when config has
\* the key "name": Python raises TypeError before ToolAgent is entered
duplicate_keyword(cfg) == "name" \in DOMAIN cfg

\* f"{role}-agent"
role_agent_name(role) == <<role, "-agent">>

\* the registry and the build counters after add_specialized_agent(role,
\* cfg), and whether the call raised
add_specialized_agent(agents, serials, role, cfg) ==
  LET agent_name == dict_get(cfg, "name", role_agent_name(role))
  IN  IF duplicate_keyword(cfg)
        THEN [raised |-> TRUE, agents |-> agents, serials |-> serials]
        ELSE [raised |-> FALSE,
              agents |-> [agents EXCEPT ![role] =
                            ToolAgent(<<role, serials[role] + 1>>,
                                      agent_name, cfg)],
              serials |-> [serials EXCEPT ![role] = @ + 1]]

\* a caller outside any dispatch registers an agent for a role; a call
\* that raises leaves the state as it was
AddSpecializedAgent(role, cfg) ==
  LET out == add_specialized_agent(specialized_agents, built, role, cfg)
  IN  /\ out.raised \/ built[role] < MaxBuilt
      /\ specialized_agents' = out.agents
      /\ built' = out.serials
      /\ registered' = IF out.raised THEN registered
                       ELSE [registered EXCEPT ![role] = @ + 1]
      /\ UNCHANGED <<function_vars,
                     config, task_history, last_result, clock, pc, args,
                     start_time, frame, ret, trace>>

\* ------------------------------------------------------------------------
\* AgentOrchestrator.execute_task, up to the await
\* ------------------------------------------------------------------------

\* the mode execute_task works with: the argument, or the configured mode
resolve_mode(m, cfg) ==
  IF m = <<>>
    THEN dict_get(dict_get(cfg, "agent", EmptyDict), "mode", "single")
    ELSE m[1]

\* execute_task(task, m) is called: it reads the clock and hands
\* primary_agent.execute to the executor.  Calls are numbered in the order
\* in which they are made.
StartCall(c, task, m) ==
  /\ pc[c] = "idle"
  /\ \A d \in Calls : d < c => pc[d] # "idle"
  /\ args' = [args EXCEPT ![c] = [task |-> task,
                                  mode |-> resolve_mode(m, config)]]
  /\ start_time' = [start_time EXCEPT ![c] = clock]
  /\ clock' = clock + 1
  /\ pc' = [pc EXCEPT ![c] = "submitted"]
  /\ UNCHANGED <<function_vars,
                 config, specialized_agents, built, registered, task_history,
                 last_result, frame, ret, trace>>

\* ------------------------------------------------------------------------
\* HybridAgent.execute, run by a worker thread
\* ------------------------------------------------------------------------

\* the branch of execute
route(task) == IF assess_complexity(task) < Threshold THEN "single" ELSE "multi"

\* Dispatch as it would be if a requested mode of "single" were obeyed
DispatchHonoursMode(c) ==
  /\ pc[c] = "submitted"
  /\ pc' = [pc EXCEPT ![c] = IF args[c].mode = "single"
                               THEN "single"
                               ELSE route(args[c].task)]
  /\ UNCHANGED <<function_vars,
                 config, specialized_agents, built, registered, task_history,
                 last_result, clock, args, start_time, frame, ret, trace>>

\* complexity = self._assess_complexity(task) and the branch on it
Dispatch(c) ==
  /\ pc[c] = "submitted"
  /\ pc' = [pc EXCEPT ![c] = route(args[c].task)]
  /\ UNCHANGED <<function_vars,
                 config, specialized_agents, built, registered, task_history,
                 last_result, clock, args, start_time, frame, ret, trace>>

\* SingleExecute as it would be if the single path also filled the
\* researcher slot of the registry
SingleExecuteBuildsAgent(c) ==
  /\ pc[c] = "single"
  /\ \E r \in ExecuteResults :
       /\ ret' = [ret EXCEPT ![c] = [raised |-> FALSE, value |-> r]]
       /\ trace' = [trace EXCEPT ![c] =
                      Append(@, [ev |-> "single", result |-> r])]
  /\ specialized_agents' =
       [specialized_agents EXCEPT !["researcher"] =
          ToolAgent(<<"researcher", built["researcher"] + 1>>,
                    role_agent_name("researcher"), [tools |-> <<>>])]
  /\ built' = [built EXCEPT !["researcher"] = @ + 1]
  /\ pc' = [pc EXCEPT ![c] = "worker_done"]
  /\ UNCHANGED <<function_vars,
                 config, registered, task_history, last_result, clock, args,
                 start_time, frame>>

\* return super().execute(task, **kwargs)
SingleExecute(c) ==
  /\ pc[c] = "single"
  /\ \E r \in ExecuteResults :
       /\ ret' = [ret EXCEPT ![c] = [raised |-> FALSE, value |-> r]]
       /\ trace' = [trace EXCEPT ![c] =
                      Append(@, [ev |-> "single", result |-> r])]
  /\ pc' = [pc EXCEPT ![c] = "worker_done"]
  /\ UNCHANGED <<function_vars,
                 config, specialized_agents, built, registered, task_history,
                 last_result, clock, args, start_time, frame>>

\* ------------------------------------------------------------------------
\* HybridAgent._execute_multi_agent
\* ------------------------------------------------------------------------

\* the test that guards the fast path
is_calculation(task) == startswith(lower(task), Calculate)

\* the test on what _decide_action returned
is_calculator_action(d) ==
  d.name = "calculator" /\ "expression" \in DOMAIN d.input

\* the test on what _execute_action returned
is_success(r) ==
  dict_get(r, "status", NoneVal) = "success" /\ "result" \in DOMAIN r

\* direct_result with the expression and the value exchanged in the answer
direct_result_swapped(task, d, r) ==
  [task |-> task,
   answer |-> <<"The result of ", r["result"], " is ", d.input["expression"]>>,
   direct_result |-> r,
   mode |-> "direct"]

\* the record the fast path returns
direct_result(task, d, r) ==
  [task |-> task,
   answer |-> <<"The result of ", d.input["expression"], " is ", r["result"]>>,
   direct_result |-> r,
   mode |-> "direct"]

\* the task starts with "calculate": self._decide_action({"task": task})
DecideAction(c) ==
  /\ pc[c] = "multi"
  /\ is_calculation(args[c].task)
  /\ \E d \in DecideOutcomes :
       /\ frame' = [frame EXCEPT ![c].action = d]
       /\ trace' = [trace EXCEPT ![c] =
                      Append(@, [ev |-> "decide", action |-> d])]
  /\ pc' = [pc EXCEPT ![c] = "decided"]
  /\ UNCHANGED <<function_vars,
                 config, specialized_agents, built, registered, task_history,
                 last_result, clock, args, start_time, ret>>

\* the test on the action, and self._execute_action when it passes;
\* otherwise the locals of the fast path are dead
ExecuteAction(c) ==
  /\ pc[c] = "decided"
  /\ IF is_calculator_action(frame[c].action)
       THEN /\ \E r \in ActionResults :
                 /\ frame' = [frame EXCEPT ![c].result = r]
                 /\ trace' = [trace EXCEPT ![c] =
                                Append(@, [ev |-> "action", result |-> r])]
            /\ pc' = [pc EXCEPT ![c] = "acted"]
       ELSE /\ frame' = [frame EXCEPT ![c] = NoFrame]
            /\ pc' = [pc EXCEPT ![c] = "resolve"]
            /\ UNCHANGED trace
  /\ UNCHANGED <<function_vars,
                 config, specialized_agents, built, registered, task_history,
                 last_result, clock, args, start_time, ret>>

\* the test on the result of the action: return the direct record, or go
\* on to the pipeline
FastPathReturn(c) ==
  /\ pc[c] = "acted"
  /\ IF is_success(frame[c].result)
       THEN /\ ret' = [ret EXCEPT ![c] =
                         [raised |-> FALSE,
                          value |-> direct_result(args[c].task, frame[c].action,
                                                  frame[c].result)]]
            /\ pc' = [pc EXCEPT ![c] = "worker_done"]
       ELSE /\ pc' = [pc EXCEPT ![c] = "resolve"]
            /\ UNCHANGED ret
  /\ frame' = [frame EXCEPT ![c] = NoFrame]
  /\ UNCHANGED <<function_vars,
                 config, specialized_agents, built, registered, task_history,
                 last_result, clock, args, start_time, trace>>

\* the task does not start with "calculate"
SkipFastPath(c) ==
  /\ pc[c] = "multi"
  /\ ~is_calculation(args[c].task)
  /\ pc' = [pc EXCEPT ![c] = "resolve"]
  /\ UNCHANGED <<function_vars,
                 config, specialized_agents, built, registered, task_history,
                 last_result, clock, args, start_time, frame, ret, trace>>

\* kwargs of the dispatch: execute(task, mode=mode)
kwargs_of(c) == [mode |-> args[c].mode]

\* default_config of a role
default_config(role, kwargs) ==
  [name |-> role_agent_name(role), tools |-> dict_get(kwargs, "tools", <<>>)]

\* where the loop over standard_roles goes after role number i
after_role(i) ==
  IF i < Len(standard_roles)
    THEN [pc |-> "resolve", role |-> i + 1]
    ELSE [pc |-> "stage", role |-> 1]

\* CheckRole as it would be if the loop built a default agent for every
\* role without looking at the slot
CheckRoleRebuilds(c) ==
  /\ pc[c] = "resolve"
  /\ LET i == frame[c].role
         role == standard_roles[i]
     IN  /\ specialized_agents' =
              [specialized_agents EXCEPT ![role] =
                 ToolAgent(<<role, built[role] + 1>>, role_agent_name(role),
                           [tools |-> <<>>])]
         /\ built' = [built EXCEPT ![role] = @ + 1]
         /\ pc' = [pc EXCEPT ![c] = after_role(i).pc]
         /\ frame' = [frame EXCEPT ![c].role = after_role(i).role]
  /\ UNCHANGED <<function_vars,
                 config, registered, task_history, last_result, clock, args,
                 start_time, ret, trace>>

\* `if not self.specialized_agents.get(role)` for the role the loop is at
CheckRole(c) ==
  /\ pc[c] = "resolve"
  /\ LET i == frame[c].role
         missing == ~truthy(specialized_agents[standard_roles[i]])
     IN  /\ pc' = [pc EXCEPT ![c] =
                     IF missing THEN "construct" ELSE after_role(i).pc]
         /\ frame' = [frame EXCEPT ![c].role =
                        IF missing THEN i ELSE after_role(i).role]
  /\ UNCHANGED <<function_vars,
                 config, specialized_agents, built, registered, task_history,
                 last_result, clock, args, start_time, ret, trace>>

\* self.add_specialized_agent(role, default_config)
ConstructDefault(c) ==
  /\ pc[c] = "construct"
  /\ LET i == frame[c].role
         role == standard_roles[i]
         out == add_specialized_agent(specialized_agents, built, role,
                                      default_config(role, kwargs_of(c)))
     IN  /\ specialized_agents' = out.agents
         /\ built' = out.serials
         /\ IF out.raised
              THEN /\ pc' = [pc EXCEPT ![c] = "worker_raised"]
                   /\ ret' = [ret EXCEPT ![c] =
                                [raised |-> TRUE, value |-> [exception |-> "TypeError"]]]
                   /\ frame' = [frame EXCEPT ![c] = NoFrame]
                   /\ trace' = [trace EXCEPT ![c] =
                                  Append(@, [ev |-> "construct_failed",
                                             role |-> role])]
              ELSE /\ pc' = [pc EXCEPT ![c] = after_role(i).pc]
                   /\ frame' = [frame EXCEPT ![c].role = after_role(i).role]
                   /\ trace' = [trace EXCEPT ![c] =
                                  Append(@, [ev |-> "construct", role |-> role])]
                   /\ UNCHANGED ret
  /\ UNCHANGED <<function_vars,
                 config, registered, task_history, last_result, clock, args,
                 start_time>>

\* prompt as it would be if the executor were given the researcher's result
prompt_stale(role, task, results) ==
  CASE role = "researcher" ->
         <<"Analyze and gather information for: ", task>>
    [] role = "planner" ->
         <<"Plan execution strategy for: ", task, "\nBased on research: ",
           str(dict_get(results, "researcher", NoneVal))>>
    [] role = "executor" ->
         <<"Execute plan for: ", task, "\nFollowing strategy: ",
           str(dict_get(results, "researcher", NoneVal))>>
    [] role = "critic" ->
         <<"Evaluate results for: ", task, "\nAnalyzing output: ",
           str(dict_get(results, "executor", NoneVal))>>

\* the prompt of each role
prompt(role, task, results) ==
  CASE role = "researcher" ->
         <<"Analyze and gather information for: ", task>>
    [] role = "planner" ->
         <<"Plan execution strategy for: ", task, "\nBased on research: ",
           str(dict_get(results, "researcher", NoneVal))>>
    [] role = "executor" ->
         <<"Execute plan for: ", task, "\nFollowing strategy: ",
           str(dict_get(results, "planner", NoneVal))>>
    [] role = "critic" ->
         <<"Evaluate results for: ", task, "\nAnalyzing output: ",
           str(dict_get(results, "executor", NoneVal))>>

\* where the pipeline goes after the stage of role number i
after_stage(i) ==
  IF i < Len(standard_roles)
    THEN [pc |-> "stage", role |-> i + 1]
    ELSE [pc |-> "aggregate", role |-> i]

\* `if self.specialized_agents.get(role):` and the call of the agent's
\* execute with the prompt of the role
StageBegin(c) ==
  /\ pc[c] = "stage"
  /\ LET i == frame[c].role
         role == standard_roles[i]
         agent == specialized_agents[role]
     IN  IF truthy(agent)
           THEN /\ pc' = [pc EXCEPT ![c] = "running"]
                /\ frame' = [frame EXCEPT ![c].running = agent]
                /\ trace' = [trace EXCEPT ![c] =
                               Append(@, [ev |-> "stage", role |-> role,
                                          agent |-> agent.id,
                                          registered |-> registered,
                                          prompt |-> prompt(role, args[c].task,
                                                            frame[c].results)])]
           ELSE /\ pc' = [pc EXCEPT ![c] = after_stage(i).pc]
                /\ frame' = [frame EXCEPT ![c].role = after_stage(i).role]
                /\ UNCHANGED trace
  /\ UNCHANGED <<function_vars,
                 config, specialized_agents, built, registered, task_history,
                 last_result, clock, args, start_time, ret>>

\* StageEnd as it would be if a result with status "error" were raised as
\* an exception instead of being stored
StageEndAbortsOnError(c) ==
  /\ pc[c] = "running"
  /\ LET i == frame[c].role
         role == standard_roles[i]
     IN  \E r \in ExecuteResults :
           IF r.status = "error"
             THEN /\ frame' = [frame EXCEPT ![c] = NoFrame]
                  /\ pc' = [pc EXCEPT ![c] = "worker_raised"]
                  /\ ret' = [ret EXCEPT ![c] =
                               [raised |-> TRUE,
                                value |-> [exception |-> "RuntimeError"]]]
             ELSE /\ frame' = [frame EXCEPT
                                ![c].results = dict_set(@, role, r),
                                ![c].final_result =
                                  IF role = "executor" THEN r ELSE @,
                                ![c].running = NoneVal,
                                ![c].role = after_stage(i).role]
                  /\ pc' = [pc EXCEPT ![c] = after_stage(i).pc]
                  /\ UNCHANGED ret
  /\ UNCHANGED <<function_vars,
                 config, specialized_agents, built, registered, task_history,
                 last_result, clock, args, start_time, trace>>

\* the agent's execute returns: results[role] = ..., and final_result for
\* the executor
StageEnd(c) ==
  /\ pc[c] = "running"
  /\ LET i == frame[c].role
         role == standard_roles[i]
     IN  \E r \in ExecuteResults :
           frame' = [frame EXCEPT
                       ![c].results = dict_set(@, role, r),
                       ![c].final_result = IF role = "executor" THEN r ELSE @,
                       ![c].running = NoneVal,
                       ![c].role = after_stage(i).role]
  /\ pc' = [pc EXCEPT ![c] = after_stage(frame[c].role).pc]
  /\ UNCHANGED <<function_vars,
                 config, specialized_agents, built, registered, task_history,
                 last_result, clock, args, start_time, ret, trace>>

\* the answer of the aggregated result
answer_of(final) ==
  IF truthy(final)
    THEN dict_get(final, "answer", str(final))
    ELSE <<"No answer">>

\* the record the full pipeline returns
multi_result(task, results, final) ==
  [task |-> task,
   answer |-> answer_of(final),
   agent_results |-> results,
   mode |-> "multi"]

Aggregate(c) ==
  /\ pc[c] = "aggregate"
  /\ ret' = [ret EXCEPT ![c] =
               [raised |-> FALSE,
                value |-> multi_result(args[c].task, frame[c].results,
                                       frame[c].final_result)]]
  /\ frame' = [frame EXCEPT ![c] = NoFrame]
  /\ pc' = [pc EXCEPT ![c] = "worker_done"]
  /\ UNCHANGED <<function_vars,
                 config, specialized_agents, built, registered, task_history,
                 last_result, clock, args, start_time, trace>>

\* ------------------------------------------------------------------------
\* AgentOrchestrator.execute_task, after the await
\* ------------------------------------------------------------------------

\* the entry execute_task appends
history_entry(task, mode, start, now, result) ==
  [task |-> task, mode |-> mode, start_time |-> start,
   execution_time |-> now - start, status |-> "completed", result |-> result]

\* Complete as it would be if the entry were put at the front of the history
CompletePrepends(c) ==
  /\ pc[c] = "worker_done"
  /\ clock' = clock + 1
  /\ task_history' = <<history_entry(args[c].task, args[c].mode,
                                     start_time[c], clock, ret[c].value)>>
                       \o task_history
  /\ last_result' = ret[c].value
  /\ pc' = [pc EXCEPT ![c] = "returned"]
  /\ UNCHANGED <<function_vars,
                 config, specialized_agents, built, registered, args,
                 start_time, frame, ret, trace>>

\* Complete as it would be if last_result were not set
CompleteKeepsLastResult(c) ==
  /\ pc[c] = "worker_done"
  /\ clock' = clock + 1
  /\ task_history' = Append(task_history,
                            history_entry(args[c].task, args[c].mode,
                                          start_time[c], clock, ret[c].value))
  /\ pc' = [pc EXCEPT ![c] = "returned"]
  /\ UNCHANGED <<function_vars,
                 config, specialized_agents, built, registered, last_result,
                 args, start_time, frame, ret, trace>>

\* the worker returned: the coroutine resumes on the event loop
Complete(c) ==
  /\ pc[c] = "worker_done"
  /\ clock' = clock + 1
  /\ task_history' = Append(task_history,
                            history_entry(args[c].task, args[c].mode,
                                          start_time[c], clock, ret[c].value))
  /\ last_result' = ret[c].value
  /\ pc' = [pc EXCEPT ![c] = "returned"]
  /\ UNCHANGED <<function_vars,
                 config, specialized_agents, built, registered, args, start_time,
                 frame, ret, trace>>

\* the worker raised: the await raises and execute_task ends there
Propagate(c) ==
  /\ pc[c] = "worker_raised"
  /\ pc' = [pc EXCEPT ![c] = "failed"]
  /\ UNCHANGED <<function_vars,
                 config, specialized_agents, built, registered, task_history,
                 last_result, clock, args, start_time, frame, ret, trace>>

\* ------------------------------------------------------------------------
\* The system
\* ------------------------------------------------------------------------

Next ==
  \/ \E role \in Roles, cfg \in AgentConfigs : AddSpecializedAgent(role, cfg)
  \/ \E c \in Calls, in \in CallInputs : StartCall(c, in.task, in.mode)
  \/ \E c \in Calls : Dispatch(c)
  \/ \E c \in Calls : SingleExecute(c)
  \/ \E c \in Calls : DecideAction(c)
  \/ \E c \in Calls : ExecuteAction(c)
  \/ \E c \in Calls : FastPathReturn(c)
  \/ \E c \in Calls : SkipFastPath(c)
  \/ \E c \in Calls : CheckRole(c)
  \/ \E c \in Calls : ConstructDefault(c)
  \/ \E c \in Calls : StageBegin(c)
  \/ \E c \in Calls : StageEnd(c)
  \/ \E c \in Calls : Aggregate(c)
  \/ \E c \in Calls : Complete(c)
  \/ \E c \in Calls : Propagate(c)

Spec == Init /\ [][Next]_vars

\* ------------------------------------------------------------------------
\* _assess_complexity and the aggregation of the answer, taken on their own
\* ------------------------------------------------------------------------

\* number of phrases inserted into one task
MaxInsertions == 1

\* "look up": complexity 2.7
TaskLookUp == <<"l", "o", "o", "k", " ", "u", "p">>

\* "count text": complexity 2.7
TaskCountText == <<"c", "o", "u", "n", "t", " ", "t", "e", "x", "t">>

\* "optimize improve enhance": complexity 7.8
TaskOptimize ==
  <<"o", "p", "t", "i", "m", "i", "z", "e", " ", "i", "m", "p", "r", "o", "v", "e">>
    \o <<" ", "e", "n", "h", "a", "n", "c", "e">>

\* the tasks _assess_complexity is first called with
SeedTasks == {<<>>, TaskLookUp, TaskCountText, TaskOptimize}

\* phrases of the operations table: "optimize", "if", "all"
TriggerPhrases ==
  {operations[6].alts[1], operations[8].alts[1], operations[9].alts[1]}

\* the places of a task where a word can be put: its ends and the places
\* next to whitespace; pos is the number of characters before the place
word_boundaries(text) ==
  {pos \in 0..Len(text) :
     \/ pos = 0
     \/ pos = Len(text)
     \/ isspace(text[pos])
     \/ isspace(text[pos + 1])}

\* the task with phrase put in at pos as a word of its own
insert_word(text, pos, phrase) ==
  SubSeq(text, 1, pos) \o <<" ">> \o phrase \o <<" ">>
    \o SubSeq(text, pos + 1, Len(text))

\* what ToolAgent.execute of the executor may hand back: a Result, or an
\* empty record
ExecutorOutputs == ExecuteResults \cup {EmptyDict}

\* the first call: _assess_complexity(task) for a seed task
FunctionInit ==
  /\ config \in LoadedConfigs
  /\ specialized_agents = [r \in Roles |-> NoneVal]
  /\ built = [r \in Roles |-> 0]
  /\ registered = [r \in Roles |-> 0]
  /\ task_history = <<>>
  /\ last_result = EmptyDict
  /\ clock = 0
  /\ pc = [c \in Calls |-> "idle"]
  /\ args = [c \in Calls |-> [task |-> <<>>, mode |-> ""]]
  /\ start_time = [c \in Calls |-> 0]
  /\ frame = [c \in Calls |-> NoFrame]
  /\ ret = [c \in Calls |-> NoneVal]
  /\ trace = [c \in Calls |-> <<>>]
  /\ scored_task \in SeedTasks
  /\ complexity = assess_complexity(scored_task)
  /\ insertions = 0
  /\ executor_ran = FALSE
  /\ final_result = NoneVal
  /\ answer = <<>>

\* a phrase is put into the task and _assess_complexity is called with the
\* new task
InsertPhrase(phrase) ==
  /\ insertions < MaxInsertions
  /\ \E pos \in word_boundaries(scored_task) :
       scored_task' = insert_word(scored_task, pos, phrase)
  /\ complexity' = assess_complexity(scored_task')
  /\ insertions' = insertions + 1
  /\ UNCHANGED <<config, specialized_agents, built, registered, task_history,
                 last_result, clock, pc, args, start_time, frame, ret, trace,
                 executor_ran, final_result, answer>>

\* the executor stage and the answer of the record returned: final_result
\* stays None when the stage is skipped and is what execute returned
\* otherwise
AggregateAnswer(ran, r) ==
  /\ executor_ran' = ran
  /\ final_result' = IF ran THEN r ELSE NoneVal
  /\ answer' = answer_of(final_result')
  /\ UNCHANGED <<config, specialized_agents, built, registered, task_history,
                 last_result, clock, pc, args, start_time, frame, ret, trace,
                 scored_task, complexity, insertions>>

FunctionNext ==
  \/ \E phrase \in TriggerPhrases : InsertPhrase(phrase)
  \/ \E ran \in BOOLEAN, r \in ExecutorOutputs : AggregateAnswer(ran, r)

FunctionSpec == FunctionInit /\ [][FunctionNext]_vars

\* ------------------------------------------------------------------------
\* Vocabulary of the properties
\* ------------------------------------------------------------------------

\* primary_agent.execute of call c has returned or raised
WorkerEnded(c) == pc[c] \in {"worker_done", "worker_raised", "returned", "failed"}

\* primary_agent.execute of call c returned a record whose mode is m
ReturnedMode(c, m) ==
  /\ WorkerEnded(c)
  /\ ~ret[c].raised
  /\ dict_get(ret[c].value, "mode", "") = m

\* primary_agent.execute of call c returned a "multi" record with an entry
\* for each of the four roles
ReturnedFullPipeline(c) ==
  /\ ReturnedMode(c, "multi")
  /\ DOMAIN ret[c].value.agent_results = Roles

\* the invocations of specialized agents call c made, in order
Stages(c) == SelectSeq(trace[c], LAMBDA e : e.ev = "stage")

\* call c made an invocation of kind ev
HasEvent(c, ev) == \E i \in DOMAIN trace[c] : trace[c][i].ev = ev

\* the history entries of call c (start times identify calls)
EntriesOf(c) ==
  {i \in DOMAIN task_history : task_history[i].start_time = start_time[c]}

\* the clock value at which entry i was appended
EndTime(i) == task_history[i].start_time + task_history[i].execution_time

\* execute_task of call c1 returned before call c2 was made
Before(c1, c2) ==
  /\ pc[c1] = "returned"
  /\ pc[c2] # "idle"
  /\ \A i \in EntriesOf(c1) : EndTime(i) < start_time[c2]

\* ------------------------------------------------------------------------
\* C1
\* ------------------------------------------------------------------------

\* C1: for every task whose complexity is below 3.0, execute invokes the
\* single path exactly once, invokes no specialized agent, and returns that
\* path's result verbatim with mode "single"
C1_SingleReturnsModeSingle ==
  \A c \in Calls :
    (WorkerEnded(c) /\ assess_complexity(args[c].task) < Threshold) =>
      /\ ~ret[c].raised
      /\ trace[c] = <<[ev |-> "single", result |-> ret[c].value]>>
      /\ dict_get(ret[c].value, "mode", "") = "single"

\* ------------------------------------------------------------------------
\* C2
\* ------------------------------------------------------------------------

\* C2: a step of a dispatch whose task scores below 3.0 leaves every slot of
\* the registry as it was (stated contrapositively: a step of a call that
\* changes the registry belongs to a task scoring at least 3.0)
C2_SingleDispatchLeavesRegistry ==
  [][\A c \in Calls :
       (/\ pc'[c] # pc[c]
        /\ (specialized_agents' # specialized_agents \/ built' # built))
         => assess_complexity(args'[c].task) >= Threshold]_vars

\* a dispatch of a task scoring below 3.0 has returned while the registry
\* holds both resolved and unresolved slots
C2_Witness ==
  \E c \in Calls :
    /\ pc[c] = "returned"
    /\ assess_complexity(args[c].task) < Threshold
    /\ \E r \in Roles : truthy(specialized_agents[r])
    /\ \E r \in Roles : ~truthy(specialized_agents[r])

\* ------------------------------------------------------------------------
\* C3
\* ------------------------------------------------------------------------

\* C3: every dispatch of a task scoring >= 3.0 for which the fast path does
\* not fire returns a "multi" result with an entry for each of the four
\* roles; and a "multi" result is returned only after all four roles were
\* attempted
C3_MultiPopulatesAllRoles ==
  \A c \in Calls :
    WorkerEnded(c) =>
      /\ (/\ ~ReturnedMode(c, "direct")
          /\ assess_complexity(args[c].task) >= Threshold)
           => ReturnedFullPipeline(c)
      /\ ReturnedMode(c, "multi")
           => {Stages(c)[k].role : k \in DOMAIN Stages(c)} = Roles

\* ------------------------------------------------------------------------
\* C4
\* ------------------------------------------------------------------------

\* the results of the stages of call c that have returned
StageResults(c) ==
  IF pc[c] \in {"stage", "running", "aggregate"} THEN frame[c].results
  ELSE IF ReturnedMode(c, "multi") THEN ret[c].value.agent_results
  ELSE EmptyDict

\* C4: in every run of the pipeline the stages run in the order researcher,
\* planner, executor, critic, each once, none starting before the previous
\* one returned; every prompt holds the task, and the prompt of each stage
\* after the first holds the rendering of the previous stage's result
C4_StagesInOrder ==
  \A c \in Calls :
    LET st == Stages(c)
        res == StageResults(c)
        returned == IF pc[c] = "running" THEN Len(st) - 1 ELSE Len(st)
    IN  /\ Len(st) <= Len(standard_roles)
        /\ \A k \in DOMAIN st : st[k].role = standard_roles[k]
        /\ DOMAIN res = {standard_roles[k] : k \in 1..returned}
        /\ \A k \in DOMAIN st :
             /\ st[k].prompt[2] = args[c].task
             /\ k > 1 => /\ Len(st[k].prompt) = 4
                         /\ st[k].prompt[4] = str(res[standard_roles[k - 1]])
        /\ ReturnedMode(c, "multi") => Len(st) = Len(standard_roles)

\* a call ran the four stages and returned
C4_Witness ==
  \E c \in Calls :
    /\ pc[c] = "returned"
    /\ ReturnedMode(c, "multi")
    /\ Len(Stages(c)) = 4

\* ------------------------------------------------------------------------
\* C5
\* ------------------------------------------------------------------------

\* C5: when the task begins with "calculate", the resolver yielded the
\* calculator action with an expression and the action reported success
\* with a result, the call returns mode "direct" with the answer
\* "The result of {expression} is {value}", and the call has constructed
\* and invoked no specialized agent
C5_FastPathReturnsDirect ==
  [][\A c \in Calls :
       (/\ pc[c] = "acted"
        /\ pc'[c] # "acted"
        /\ frame[c].action.name = "calculator"
        /\ "expression" \in DOMAIN frame[c].action.input
        /\ dict_get(frame[c].result, "status", "") = "success"
        /\ "result" \in DOMAIN frame[c].result)
         => /\ pc'[c] = "worker_done"
            /\ ret'[c] =
                 [raised |-> FALSE,
                  value |-> [task |-> args[c].task,
                             answer |-> <<"The result of ",
                                          frame[c].action.input["expression"],
                                          " is ",
                                          frame[c].result["result"]>>,
                             direct_result |-> frame[c].result,
                             mode |-> "direct"]]
            /\ \A i \in DOMAIN trace'[c] :
                 trace'[c][i].ev \in {"decide", "action"}
            /\ built' = built]_vars

\* a call returned through the fast path
C5_Witness ==
  \E c \in Calls : pc[c] = "returned" /\ ReturnedMode(c, "direct")

\* ------------------------------------------------------------------------
\* C6
\* ------------------------------------------------------------------------

\* C6: whenever the fast path is attempted and does not fire, the call goes
\* through the four-role pipeline and no error reaches the caller
C6_FastPathFailureFallsThrough ==
  \A c \in Calls :
    (WorkerEnded(c) /\ HasEvent(c, "decide") /\ ~ReturnedMode(c, "direct"))
      => ReturnedFullPipeline(c)

\* ------------------------------------------------------------------------
\* C7
\* ------------------------------------------------------------------------

C8_RegistrationInstallsConfig ==
  \A role \in Roles, cfg \in AgentConfigs :
    LET out == add_specialized_agent(specialized_agents, built, role, cfg)
    IN  /\ ~out.raised
        /\ truthy(out.agents[role])
        /\ out.agents[role].config = cfg
        /\ \A other \in Roles \ {role} :
             out.agents[other] = specialized_agents[other]

\* ------------------------------------------------------------------------
\* C9
\* ------------------------------------------------------------------------

C10_EveryCallRecorded ==
  \A c \in Calls :
    pc[c] \in {"returned", "failed"} => Cardinality(EntriesOf(c)) = 1

\* ------------------------------------------------------------------------
\* C11
\* ------------------------------------------------------------------------

\* C11: no call of execute_task ends by letting an exception escape to its
\* caller: every call that has ended has returned the dispatcher's record
C11_NoExceptionEscapes ==
  \A c \in Calls :
    /\ pc[c] # "failed"
    /\ pc[c] = "returned" => ~ret[c].raised

\* ------------------------------------------------------------------------
\* C12
\* ------------------------------------------------------------------------

\* C12: the score _assess_complexity returns lies between 0.0 and 10.0: the
\* pattern, word-count, punctuation and tool-category contributions are
\* non-negative, and the score is their sum when that is at most 10.0 and
\* 10.0 otherwise
C12_ScoreIsClampedSum ==
  LET patterns == operations_score(scored_task, 1)
      words == split_len(scored_task) * WordScore
      punctuation == special_chars(scored_task) * SpecialScore
      tools == tools_needed(scored_task) * ToolScore
      total == patterns + words + punctuation + tools
  IN  /\ patterns >= 0 /\ words >= 0 /\ punctuation >= 0 /\ tools >= 0
      /\ complexity >= 0
      /\ complexity <= MaxComplexity
      /\ complexity = IF total > MaxComplexity THEN MaxComplexity ELSE total

\* a task whose contributions add up to more than 10.0 has been scored
C12_Witness ==
  /\ raw_complexity(scored_task) > MaxComplexity
  /\ complexity = MaxComplexity

\* ------------------------------------------------------------------------
\* C13
\* ------------------------------------------------------------------------

\* C13 as stated: putting one more occurrence of a trigger phrase into the
\* task, wherever it is put, never gives a lower score than the task had
C13_InsertionNeverLowers ==
  [][insertions' = insertions + 1 => complexity' >= complexity]_vars

\* C13 as amended: putting one more occurrence of a trigger phrase at the
\* end of the task, as a word of its own, never gives a lower score than
\* the task had
C13_AppendingNeverLowers ==
  [][(/\ insertions' = insertions + 1
      /\ \E phrase \in TriggerPhrases :
           scored_task' = insert_word(scored_task, Len(scored_task), phrase))
       => complexity' >= complexity]_vars

\* a phrase has been put at the end of a task that holds a pattern of two
\* words, and the score has gone up
C13_Witness ==
  /\ insertions = 1
  /\ \E seed \in {TaskLookUp, TaskCountText}, phrase \in TriggerPhrases :
       /\ scored_task = insert_word(seed, Len(seed), phrase)
       /\ complexity > assess_complexity(seed)

\* ------------------------------------------------------------------------
\* C14
\* ------------------------------------------------------------------------

\* C14: a run of the pipeline in which the construction of the agent of some
\* role failed does not abort: it goes on to the remaining roles and
\* returns a "multi" record with a result, or a placeholder, for each of
\* the four roles
C14_ConstructionFailureConfined ==
  \A c \in Calls :
    HasEvent(c, "construct_failed") =>
      /\ pc[c] \notin {"worker_raised", "failed"}
      /\ WorkerEnded(c) => ReturnedFullPipeline(c)

\* ------------------------------------------------------------------------
\* C15
\* ------------------------------------------------------------------------

\* C15: a stage whose execute ends with status "error" is neither retried
\* nor fatal: its result is stored under its role, the next stage's prompt
\* holds the rendering of that result, the later stages run in order and
\* the run returns the aggregated record holding the error result
C15_StageErrorThreaded ==
  /\ [](\A c \in Calls :
          LET st == Stages(c)
              res == StageResults(c)
          IN  \A k \in DOMAIN standard_roles :
                (/\ standard_roles[k] \in DOMAIN res
                 /\ res[standard_roles[k]].status = "error")
                  => /\ Cardinality({j \in DOMAIN st :
                                       st[j].role = standard_roles[k]}) = 1
                     /\ Len(st) > k =>
                          /\ st[k + 1].role = standard_roles[k + 1]
                          /\ st[k + 1].prompt[4] = str(res[standard_roles[k]])
                     /\ WorkerEnded(c) =>
                          /\ Len(st) = Len(standard_roles)
                          /\ ReturnedFullPipeline(c))
  /\ [][\A c \in Calls :
          /\ (pc[c] = "running" /\ pc'[c] # "running") =>
               /\ pc'[c] = IF frame[c].role < Len(standard_roles)
                             THEN "stage" ELSE "aggregate"
               /\ standard_roles[frame[c].role] \in DOMAIN frame'[c].results
               /\ \A r \in DOMAIN frame[c].results :
                    frame'[c].results[r] = frame[c].results[r]
          /\ (pc[c] = "aggregate" /\ pc'[c] # "aggregate") =>
               /\ pc'[c] = "worker_done"
               /\ ~ret'[c].raised
               /\ ret'[c].value.mode = "multi"
               /\ ret'[c].value.agent_results = frame[c].results]_vars

\* a run whose researcher and executor stages ended in error has returned
\* the aggregated record, and the planner was given the researcher's error
C15_Witness ==
  \E c \in Calls :
    /\ pc[c] = "returned"
    /\ ReturnedFullPipeline(c)
    /\ ret[c].value.agent_results["researcher"].status = "error"
    /\ ret[c].value.agent_results["executor"].status = "error"
    /\ Len(Stages(c)) = 4
    /\ Stages(c)[2].prompt[4] = str(ret[c].value.agent_results["researcher"])

\* ------------------------------------------------------------------------
\* C16
\* ------------------------------------------------------------------------

\* C16: the answer of the pipeline's record is the executor result's answer
\* field when it has one and the rendering of the whole executor result
\* otherwise, and it is "No answer" only when the executor stage did not
\* run, whatever value the executor returned
C16_AnswerFromExecutor ==
  /\ (executor_ran /\ "answer" \in DOMAIN final_result)
       => answer = final_result["answer"]
  /\ (executor_ran /\ "answer" \notin DOMAIN final_result)
       => answer = str(final_result)
  /\ answer = <<"No answer">> => ~executor_ran

\* ------------------------------------------------------------------------
\* C17
\* ------------------------------------------------------------------------

\* call c found role unresolved and called add_specialized_agent for it
AttemptedConstruction(c, role) ==
  \E i \in DOMAIN trace[c] :
    /\ trace[c][i].ev \in {"construct", "construct_failed"}
    /\ trace[c][i].role = role

\* call c built an agent for role by default construction
Constructed(c, role) ==
  \E i \in DOMAIN trace[c] :
    trace[c][i].ev = "construct" /\ trace[c][i].role = role

\* C17: when two dispatches that run at the same time have both found the
\* same role unresolved, each constructs an agent for it: two agents are
\* built for the role, the one built second replacing the first in the
\* registry
C17_RacingDispatchesBothConstruct ==
  \A c1, c2 \in Calls :
    \A role \in Roles :
      (/\ c1 # c2
       /\ AttemptedConstruction(c1, role)
       /\ AttemptedConstruction(c2, role))
        => /\ Constructed(c1, role)
           /\ Constructed(c2, role)
           /\ built[role] - registered[role] >= 2
           /\ truthy(specialized_agents[role])

\* ------------------------------------------------------------------------
\* C18
\* ------------------------------------------------------------------------

Path(c) ==
  IF pc[c] = "single" \/ HasEvent(c, "single") THEN "single"
  ELSE IF ReturnedMode(c, "direct") THEN "direct"
  ELSE IF \/ pc[c] \in {"resolve", "construct", "stage", "running", "aggregate"}
          \/ WorkerEnded(c)
    THEN "pipeline"
  ELSE "undecided"

\* what the action resolver and the action returned to call c
CapabilityOutcomes(c) ==
  SelectSeq(trace[c], LAMBDA e : e.ev \in {"decide", "action"})

\* C19: two dispatches of the same task to which the action resolver and
\* the action answered alike take the same path (single, fast path or
\* pipeline), whatever mode each was asked for and whatever the registry
\* held when each ran
C19_PathDependsOnTaskOnly ==
  \A c1, c2 \in Calls :
    (/\ args[c1].task = args[c2].task
     /\ Path(c1) # "undecided"
     /\ Path(c2) # "undecided"
     /\ CapabilityOutcomes(c1) = CapabilityOutcomes(c2))
      => Path(c1) = Path(c2)

\* two dispatches of the same task with different modes have ended, one
\* with an unresolved registry and one with every role registered
C19_Witness ==
  \E c1, c2 \in Calls :
    /\ args[c1].task = args[c2].task
    /\ args[c1].mode # args[c2].mode
    /\ pc[c1] = "failed"
    /\ pc[c2] = "returned"
    /\ ReturnedMode(c2, "multi")

\* ------------------------------------------------------------------------
\* C20
\* ------------------------------------------------------------------------

\* C20: in every reachable state, either task_history is empty and
\* last_result is the initial empty record, or last_result is the result of
\* the last entry of task_history; and no step removes, reorders or changes
\* an entry the history already has
C20_LastResultTracksHistory ==
  /\ [](IF task_history = <<>>
          THEN last_result = EmptyDict
          ELSE last_result = task_history[Len(task_history)].result)
  /\ [][/\ Len(task_history') >= Len(task_history)
        /\ SubSeq(task_history', 1, Len(task_history)) = task_history]_vars

\* two calls with different tasks have been recorded, and last_result is the
\* result of the second entry
C20_Witness ==
  /\ Len(task_history) = 2
  /\ task_history[1].task # task_history[2].task
  /\ task_history[2].status = "completed"
  /\ last_result = task_history[2].result

====
